---- MODULE Spec2Model ----
(***************************************************************************)
(* gngram-lookup: the Aggregator (builder/build_unigrams.py), the Shard    *)
(* Builder (builder/build_hash_files.py), the shard store under DATA_DIR   *)
(* (gngram_counter/data.py) and the lookup API (gngram_counter/lookup.py,  *)
(* gngram_counter/normalize.py).                                           *)
(*                                                                         *)
(* A Python str is a sequence of one-character strings; a code point       *)
(* outside ASCII is written "U+XXXX".  An md5 hex digest is a sequence of  *)
(* 32 hex-digit values 0..15, which order exactly as the lowercase hex     *)
(* characters do.                                                          *)
(***************************************************************************)
EXTENDS Integers, Sequences, FiniteSets, TLC

VARIABLES
    lines,        \* build_unigrams.process_file: the lines of the raw input file
    unigrams,     \* build_unigrams.process_file: its locals, its position and the table written
    files,        \* build_hash_files.main: the partition tables read, in sorted file order
    build,        \* build_hash_files.main: its locals and its position in the stream
    output_dir,   \* the shard files written by the build: prefix -> rows
    data_dir,     \* DATA_DIR: whether it exists, and its flat and nested shard files
    cache,        \* lru_cache of _load_bucket: <<prefix, DataFrame>> pairs, least recent first
    threads,      \* concurrent callers of _load_bucket: where each is in the call
    parses,       \* prefix -> the number of times pl.read_parquet has parsed its shard file
    split,        \* _split_contraction: the word it is called with and what it returned
    ret           \* the last API call: operation, argument, outcome and what it touched

vars == <<lines, unigrams, files, build, output_dir, data_dir, cache, threads,
          parses, split, ret>>

----------------------------------------------------------------------------
(* Bounds of the model.                                                    *)

MaxRows == 3      \* rows of the aggregated input, over all partitions
MaxFiles == 2     \* partition tables handed to one build
MaxBatch == 2     \* words in one batch_frequency call
MaxLines == 3     \* lines of the raw file handed to the Aggregator
NumThreads == 2   \* concurrent callers of _load_bucket
MaxCalls == 2     \* calls of _load_bucket one concurrent caller makes

----------------------------------------------------------------------------
(* Sequence helpers.                                                       *)

RECURSIVE Concat(_)
Concat(seqs) == IF seqs = <<>> THEN <<>> ELSE Head(seqs) \o Concat(Tail(seqs))

RECURSIVE SumOver(_, _)
SumOver(seq, col) == IF seq = <<>> THEN 0 ELSE Head(seq)[col] + SumOver(Tail(seq), col)

Range(seq) == {seq[i] : i \in 1..Len(seq)}

EndsWith(word, suffix) ==
    /\ Len(word) >= Len(suffix)
    /\ SubSeq(word, Len(word) - Len(suffix) + 1, Len(word)) = suffix

\* Python's ord() on the code points of the words the build compares.
Ord(c) ==
    CASE c = "'" -> 39 [] c = "a" -> 97 [] c = "c" -> 99 [] c = "d" -> 100
      [] c = "e" -> 101 [] c = "f" -> 102 [] c = "g" -> 103 [] c = "h" -> 104
      [] c = "i" -> 105 [] c = "l" -> 108 [] c = "m" -> 109 [] c = "n" -> 110
      [] c = "o" -> 111 [] c = "p" -> 112 [] c = "r" -> 114 [] c = "s" -> 115
      [] c = "t" -> 116 [] c = "u" -> 117 [] c = "v" -> 118

\* a < b for two sequences of integers, as Python orders str and tuples.
RECURSIVE IntSeqLess(_, _)
IntSeqLess(a, b) ==
    IF b = <<>> THEN FALSE
    ELSE IF a = <<>> THEN TRUE
    ELSE IF Head(a) # Head(b) THEN Head(a) < Head(b)
    ELSE IntSeqLess(Tail(a), Tail(b))

StrLess(a, b) ==
    IntSeqLess([i \in 1..Len(a) |-> Ord(a[i])], [i \in 1..Len(b) |-> Ord(b[i])])

Digits == {"0", "1", "2", "3", "4", "5", "6", "7", "8", "9"}

----------------------------------------------------------------------------
(* gngram_counter/normalize.py                                             *)

APOSTROPHE_VARIANTS ==
    {"U+2019", "U+2018", "U+0060", "U+00B4", "U+201B", "U+2032", "U+2035",
     "U+02B9", "U+02BC", "U+02C8", "U+0313", "U+0315", "U+055A", "U+05F3",
     "U+07F4", "U+07F5", "U+FF07", "U+1FBF", "U+1FBD", "U+A78C"}

normalize_apostrophes(text) ==
    [i \in 1..Len(text) |->
        IF text[i] \in APOSTROPHE_VARIANTS THEN "'" ELSE text[i]]

\* str.lower() per code point; U+A78B (capital saltillo) lowers to U+A78C.
LowerChar(c) ==
    CASE c = "A" -> "a" [] c = "B" -> "b" [] c = "C" -> "c" [] c = "D" -> "d"
      [] c = "E" -> "e" [] c = "F" -> "f" [] c = "G" -> "g" [] c = "H" -> "h"
      [] c = "I" -> "i" [] c = "J" -> "j" [] c = "K" -> "k" [] c = "L" -> "l"
      [] c = "M" -> "m" [] c = "N" -> "n" [] c = "O" -> "o" [] c = "P" -> "p"
      [] c = "Q" -> "q" [] c = "R" -> "r" [] c = "S" -> "s" [] c = "T" -> "t"
      [] c = "U" -> "u" [] c = "V" -> "v" [] c = "W" -> "w" [] c = "X" -> "x"
      [] c = "Y" -> "y" [] c = "Z" -> "z"
      [] c = "U+A78B" -> "U+A78C"
      [] OTHER -> c

Lower(text) == [i \in 1..Len(text) |-> LowerChar(text[i])]

Whitespace == {" ", "\t", "\n"}

RECURSIVE LStrip(_)
LStrip(text) ==
    IF text # <<>> /\ Head(text) \in Whitespace THEN LStrip(Tail(text)) ELSE text

RECURSIVE RStrip(_)
RStrip(text) ==
    IF text # <<>> /\ text[Len(text)] \in Whitespace
    THEN RStrip(SubSeq(text, 1, Len(text) - 1))
    ELSE text

Strip(text) == RStrip(LStrip(text))

normalize(text) == Strip(Lower(normalize_apostrophes(text)))

----------------------------------------------------------------------------
(* hashlib.md5(...).hexdigest(), tabulated on the strings the model hashes. *)

md5_hexdigest(text) ==
    \* md5('') = d41d8cd98f00b204e9800998ecf8427e
    CASE text = <<>> ->
         <<13, 4, 1, 13, 8, 12, 13, 9, 8, 15, 0, 0, 11, 2, 0, 4, 14, 9, 8, 0, 0, 9, 9, 8, 14, 12, 15, 8, 4, 2, 7, 14>>
    \* md5('do') = d4579b2688d675235f402f6b4b43bcbf
      [] text = <<"d", "o">> ->
         <<13, 4, 5, 7, 9, 11, 2, 6, 8, 8, 13, 6, 7, 5, 2, 3, 5, 15, 4, 0, 2, 15, 6, 11, 4, 11, 4, 3, 11, 12, 11, 15>>
    \* md5("don't") = 5970929a425637241abb7a44591e32b3
      [] text = <<"d", "o", "n", "'", "t">> ->
         <<5, 9, 7, 0, 9, 2, 9, 10, 4, 2, 5, 6, 3, 7, 2, 4, 1, 10, 11, 11, 7, 10, 4, 4, 5, 9, 1, 14, 3, 2, 11, 3>>
    \* md5("don't've") = 1fa9650c641aa8df07f79a5b71a419b6
      [] text = <<"d", "o", "n", "'", "t", "'", "v", "e">> ->
         <<1, 15, 10, 9, 6, 5, 0, 12, 6, 4, 1, 10, 10, 8, 13, 15, 0, 7, 15, 7, 9, 10, 5, 11, 7, 1, 10, 4, 1, 9, 11, 6>>
    \* md5('self') = 590f53e8699817c6fa498cc11a4cbe63
      [] text = <<"s", "e", "l", "f">> ->
         <<5, 9, 0, 15, 5, 3, 14, 8, 6, 9, 9, 8, 1, 7, 12, 6, 15, 10, 4, 9, 8, 12, 12, 1, 1, 10, 4, 12, 11, 14, 6, 3>>
    \* md5('cat') = d077f244def8a70e5ea758bd8352fcd8
      [] text = <<"c", "a", "t">> ->
         <<13, 0, 7, 7, 15, 2, 4, 4, 13, 14, 15, 8, 10, 7, 0, 14, 5, 14, 10, 7, 5, 8, 11, 13, 8, 3, 5, 2, 15, 12, 13, 8>>
    \* md5('i') = 865c0c0b4ab0e063e5caa3387c1a8741
      [] text = <<"i">> ->
         <<8, 6, 5, 12, 0, 12, 0, 11, 4, 10, 11, 0, 14, 0, 6, 3, 14, 5, 12, 10, 10, 3, 3, 8, 7, 12, 1, 10, 8, 7, 4, 1>>
    \* md5("i'd") = 1bd6a4bd202c9f60f1c05f7d5a6018ba
      [] text = <<"i", "'", "d">> ->
         <<1, 11, 13, 6, 10, 4, 11, 13, 2, 0, 2, 12, 9, 15, 6, 0, 15, 1, 12, 0, 5, 15, 7, 13, 5, 10, 6, 0, 1, 8, 11, 10>>
    \* md5("i'd've") = ea6be3d46f18340aa13e722bf33aa328
      [] text = <<"i", "'", "d", "'", "v", "e">> ->
         <<14, 10, 6, 11, 14, 3, 13, 4, 6, 15, 1, 8, 3, 4, 0, 10, 10, 1, 3, 14, 7, 2, 2, 11, 15, 3, 3, 10, 10, 3, 2, 8>>
    \* md5('dog') = 06d80eb0c50b49a509b49f2424e8c805
      [] text = <<"d", "o", "g">> ->
         <<0, 6, 13, 8, 0, 14, 11, 0, 12, 5, 0, 11, 4, 9, 10, 5, 0, 9, 11, 4, 9, 15, 2, 4, 2, 4, 14, 8, 12, 8, 0, 5>>
    \* md5("dog's") = efc6d9091ed95f03533a0cbc7591cf53
      [] text = <<"d", "o", "g", "'", "s">> ->
         <<14, 15, 12, 6, 13, 9, 0, 9, 1, 14, 13, 9, 5, 15, 0, 3, 5, 3, 3, 10, 0, 12, 11, 12, 7, 5, 9, 1, 12, 15, 5, 3>>
    \* md5('stop') = ef399b2d446bb37b7c32ad2cc1b6045b
      [] text = <<"s", "t", "o", "p">> ->
         <<14, 15, 3, 9, 9, 11, 2, 13, 4, 4, 6, 11, 11, 3, 7, 11, 7, 12, 3, 2, 10, 13, 2, 12, 12, 1, 11, 6, 0, 4, 5, 11>>
    \* md5('much') = ef56b0b0ddb93c2885892c06be830c68
      [] text = <<"m", "u", "c", "h">> ->
         <<14, 15, 5, 6, 11, 0, 11, 0, 13, 13, 11, 9, 3, 12, 2, 8, 8, 5, 8, 9, 2, 12, 0, 6, 11, 14, 8, 3, 0, 12, 6, 8>>
    \* md5('it') = 0d149b90e7394297301c90191ae775f0
      [] text = <<"i", "t">> ->
         <<0, 13, 1, 4, 9, 11, 9, 0, 14, 7, 3, 9, 4, 2, 9, 7, 3, 0, 1, 12, 9, 0, 1, 9, 1, 10, 14, 7, 7, 5, 15, 0>>
    \* md5("it's") = 706dc2ee585fb5dcb18e3ac08da7ce0c
      [] text = <<"i", "t", "'", "s">> ->
         <<7, 0, 6, 13, 12, 2, 14, 14, 5, 8, 5, 15, 11, 5, 13, 12, 11, 1, 8, 14, 3, 10, 12, 0, 8, 13, 10, 7, 12, 14, 0, 12>>
    \* md5('color') = 70dda5dfb8053dc6d1c492574bce9bfd
      [] text = <<"c", "o", "l", "o", "r">> ->
         <<7, 0, 13, 13, 10, 5, 13, 15, 11, 8, 0, 5, 3, 13, 12, 6, 13, 1, 12, 4, 9, 2, 5, 7, 4, 11, 12, 14, 9, 11, 15, 13>>
    \* md5('7') = 8f14e45fceea167a5a36dedd4bea2543
      [] text = <<"7">> ->
         <<8, 15, 1, 4, 14, 4, 5, 15, 12, 14, 14, 10, 1, 6, 7, 10, 5, 10, 3, 6, 13, 14, 13, 13, 4, 11, 14, 10, 2, 5, 4, 3>>
    \* md5('the') = 8fc42c6ddf9966db3b09e84365034357
      [] text = <<"t", "h", "e">> ->
         <<8, 15, 12, 4, 2, 12, 6, 13, 13, 15, 9, 9, 6, 6, 13, 11, 3, 11, 0, 9, 14, 8, 4, 3, 6, 5, 0, 3, 4, 3, 5, 7>>
    \* md5("'d") = 7638ea39c2ec72c60c16cd82937c015d
      [] text = <<"'", "d">> ->
         <<7, 6, 3, 8, 14, 10, 3, 9, 12, 2, 14, 12, 7, 2, 12, 6, 0, 12, 1, 6, 12, 13, 8, 2, 9, 3, 7, 12, 0, 1, 5, 13>>
    \* md5('don\ua78ct') = b2e7973d288f401897bab3dd70998735
      [] text = <<"d", "o", "n", "U+A78C", "t">> ->
         <<11, 2, 14, 7, 9, 7, 3, 13, 2, 8, 8, 15, 4, 0, 1, 8, 9, 7, 11, 10, 11, 3, 13, 13, 7, 0, 9, 9, 8, 7, 3, 5>>
    \* md5("the's") = 6f79c780d7332969a69df1609c8b3743
      [] text = <<"t", "h", "e", "'", "s">> ->
         <<6, 15, 7, 9, 12, 7, 8, 0, 13, 7, 3, 3, 2, 9, 6, 9, 10, 6, 9, 13, 15, 1, 6, 0, 9, 12, 8, 11, 3, 7, 4, 3>>

HexPrefix(h) == SubSeq(h, 1, 2)     \* h[:2]
HexSuffix(h) == SubSeq(h, 3, 32)    \* h[2:]

\* The 256 two-hex-digit prefixes "00" .. "ff".
Prefixes == {<<a, b>> : a \in 0..15, b \in 0..15}

----------------------------------------------------------------------------
(* builder/build_hash_files.py                                             *)

MIN_CORPUS_PAGES == 1000000

\* load_decade_totals(totalcounts.txt): decade -> (total_tf, total_df).
decade_totals ==
    (1790 :> <<500000, 400000>>) @@
    (1950 :> <<2000000, 1000000>>) @@
    (1960 :> <<4000000, 2000000>>)

\* decade_totals.get(decade, (1, 1))
DecadeTotalsGet(decade) ==
    IF decade \in DOMAIN decade_totals THEN decade_totals[decade] ELSE <<1, 1>>

\* x / y if y > 0 else 0, kept as the exact fraction <<numerator, denominator>>.
Normalized(x, y) == IF y > 0 THEN <<x, y>> ELSE <<0, 1>>

\* a > b on two such fractions (denominators are positive).
FracGreater(a, b) == a[1] * b[2] > b[1] * a[2]

None == <<"None">>

\* A row of an aggregated table is <<word, decade, tf, df>>.
Stream == Concat(files)

\* buckets[prefix].append(entry) on a defaultdict(list).
BucketAppend(buckets, prefix, entry) ==
    IF prefix \in DOMAIN buckets
    THEN [buckets EXCEPT ![prefix] = Append(@, entry)]
    ELSE buckets @@ (prefix :> <<entry>>)

\* Lines 122-125 and 166-169: hash current_word and append its summary.
FlushWord(b) ==
    LET h == md5_hexdigest(b.current_word)
        entry == <<HexSuffix(h), b.peak_tf_decade, b.peak_df_decade, b.sum_tf, b.sum_df>>
    IN  [b EXCEPT !.buckets = BucketAppend(b.buckets, HexPrefix(h), entry),
                  !.word_count = @ + 1]

\* StartWord taking the first row of a word as its peak whatever its decade.
StartWord_NoThreshold(b, word, decade, tf, doc_freq) ==
    LET corpus == DecadeTotalsGet(decade)
    IN  [b EXCEPT !.current_word = word,
                  !.peak_tf_normalized = Normalized(tf, corpus[1]),
                  !.peak_df_normalized = Normalized(doc_freq, corpus[2]),
                  !.peak_tf_decade = decade,
                  !.peak_df_decade = decade,
                  !.sum_tf = 0,
                  !.sum_df = 0]

\* Lines 129-144: a row of a new word resets the accumulators.
StartWord(b, word, decade, tf, doc_freq) ==
    LET corpus == DecadeTotalsGet(decade)
        ok == corpus[2] >= MIN_CORPUS_PAGES
    IN  [b EXCEPT !.current_word = word,
                  !.peak_tf_normalized = IF ok THEN Normalized(tf, corpus[1]) ELSE <<0, 1>>,
                  !.peak_df_normalized = IF ok THEN Normalized(doc_freq, corpus[2]) ELSE <<0, 1>>,
                  !.peak_tf_decade = IF ok THEN decade ELSE 0,
                  !.peak_df_decade = IF ok THEN decade ELSE 0,
                  !.sum_tf = 0,
                  !.sum_df = 0]

\* Lines 146-159: a further row of the current word may move the peaks.
SameWord(b, decade, tf, doc_freq) ==
    LET corpus == DecadeTotalsGet(decade)
        tf_normalized == Normalized(tf, corpus[1])
        df_normalized == Normalized(doc_freq, corpus[2])
        tf_up == corpus[2] >= MIN_CORPUS_PAGES /\ FracGreater(tf_normalized, b.peak_tf_normalized)
        df_up == corpus[2] >= MIN_CORPUS_PAGES /\ FracGreater(df_normalized, b.peak_df_normalized)
    IN  [b EXCEPT !.peak_tf_decade = IF tf_up THEN decade ELSE @,
                  !.peak_tf_normalized = IF tf_up THEN tf_normalized ELSE @,
                  !.peak_df_decade = IF df_up THEN decade ELSE @,
                  !.peak_df_normalized = IF df_up THEN df_normalized ELSE @]

\* AddSums with the document frequency summed from the wrong column.
AddSums_DfFromTf(b, tf, doc_freq) ==
    [b EXCEPT !.sum_tf = @ + tf, !.sum_df = @ + tf]

\* Lines 161-162.
AddSums(b, tf, doc_freq) ==
    [b EXCEPT !.sum_tf = @ + tf, !.sum_df = @ + doc_freq]

\* Lines 117-162: the loop body for one row.
ProcessRow(b, row) ==
    LET word == row[1]
        decade == row[2]
        tf == row[3]
        doc_freq == row[4]
        grouped ==
            IF word # b.current_word
            THEN StartWord(IF b.current_word # None THEN FlushWord(b) ELSE b,
                           word, decade, tf, doc_freq)
            ELSE SameWord(b, decade, tf, doc_freq)
    IN  AddSums(grouped, tf, doc_freq)

\* sorted(entries): entries are tuples (suffix, peak_tf, peak_df, sum_tf, sum_df).
EntryLess(a, b) ==
    IntSeqLess(a[1] \o <<a[2], a[3], a[4], a[5]>>, b[1] \o <<b[2], b[3], b[4], b[5]>>)

RECURSIVE Insert(_, _)
Insert(sorted, e) ==
    IF sorted = <<>> THEN <<e>>
    ELSE IF EntryLess(e, Head(sorted)) THEN <<e>> \o sorted
    ELSE <<Head(sorted)>> \o Insert(Tail(sorted), e)

\* sorted(entries) leaving the entries in the order they were appended.
Sorted_Unsorted(entries) == entries

RECURSIVE Sorted(_)
Sorted(entries) ==
    IF entries = <<>> THEN <<>>
    ELSE Insert(Sorted(SubSeq(entries, 1, Len(entries) - 1)), entries[Len(entries)])

\* Lines 178-184: the DataFrame written for one bucket.
ShardFrame(entries) ==
    LET s == Sorted(entries)
    IN  [i \in 1..Len(s) |->
            [hash |-> s[i][1], peak_tf |-> s[i][2], peak_df |-> s[i][3],
             sum_tf |-> s[i][4], sum_df |-> s[i][5]]]

BuildStart ==
    [pc |-> "rows", pos |-> 0, buckets |-> <<>>, word_count |-> 0,
     current_word |-> None,
     peak_tf_decade |-> 0, peak_tf_normalized |-> <<0, 1>>,
     peak_df_decade |-> 0, peak_df_normalized |-> <<0, 1>>,
     sum_tf |-> 0, sum_df |-> 0]

\* One iteration of the loop over the rows of the files (lines 113-162).
BuildRow ==
    /\ build.pc = "rows"
    /\ build.pos < Len(Stream)
    /\ build' = [ProcessRow(build, Stream[build.pos + 1]) EXCEPT !.pos = build.pos + 1]
    /\ UNCHANGED <<lines, unigrams, files, output_dir, data_dir, cache, threads, parses, split, ret>>

\* FlushLast without the final flush.
FlushLast_NoFlush ==
    /\ build.pc = "rows"
    /\ build.pos = Len(Stream)
    /\ build' = [build EXCEPT !.pc = "write"]
    /\ UNCHANGED <<lines, unigrams, files, output_dir, data_dir, cache, threads, parses, split, ret>>

\* The stream has ended: flush the last word (lines 164-169).
FlushLast ==
    /\ build.pc = "rows"
    /\ build.pos = Len(Stream)
    /\ build' = [(IF build.current_word # None THEN FlushWord(build) ELSE build)
                    EXCEPT !.pc = "write"]
    /\ UNCHANGED <<lines, unigrams, files, output_dir, data_dir, cache, threads, parses, split, ret>>

\* Write one parquet file per bucket that holds entries (lines 174-185).
WriteShards ==
    /\ build.pc = "write"
    /\ output_dir' = [prefix \in DOMAIN build.buckets |-> ShardFrame(build.buckets[prefix])]
    /\ build' = [build EXCEPT !.pc = "done"]
    /\ UNCHANGED <<lines, unigrams, files, data_dir, cache, threads, parses, split, ret>>

----------------------------------------------------------------------------
(* builder/build_unigrams.py                                               *)

\* str.split(sep) for a one-character separator.
RECURSIVE Split(_, _)
Split(text, sep) ==
    IF \A i \in 1..Len(text) : text[i] # sep
    THEN <<text>>
    ELSE LET i == CHOOSE k \in 1..Len(text) :
                      text[k] = sep /\ \A j \in 1..(k - 1) : text[j] # sep
         IN  <<SubSeq(text, 1, i - 1)>> \o Split(SubSeq(text, i + 1, Len(text)), sep)

\* line.rstrip("\n")
RECURSIVE RStripNewline(_)
RStripNewline(text) ==
    IF text # <<>> /\ text[Len(text)] = "\n"
    THEN RStripNewline(SubSeq(text, 1, Len(text) - 1))
    ELSE text

AsciiLetters ==
    {"a", "b", "c", "d", "e", "f", "g", "h", "i", "j", "k", "l", "m",
     "n", "o", "p", "q", "r", "s", "t", "u", "v", "w", "x", "y", "z",
     "A", "B", "C", "D", "E", "F", "G", "H", "I", "J", "K", "L", "M",
     "N", "O", "P", "Q", "R", "S", "T", "U", "V", "W", "X", "Y", "Z"}

\* ALPHA_RE.match(part) for ^[a-zA-Z]+$: one or more letters, and $ also
\* matches before a final newline.
ALPHA_RE(part) ==
    LET body == IF part # <<>> /\ part[Len(part)] = "\n"
                THEN SubSeq(part, 1, Len(part) - 1) ELSE part
    IN  /\ body # <<>>
        /\ \A i \in 1..Len(body) : body[i] \in AsciiLetters

\* The lowercase bare word of a token, or None.
extract_word(ngram) ==
    LET part == Split(Split(ngram, "_")[1], ".")[1]
    IN  IF part = <<>> \/ ~ALPHA_RE(part) THEN None ELSE Lower(part)

DigitValue(c) ==
    CASE c = "0" -> 0 [] c = "1" -> 1 [] c = "2" -> 2 [] c = "3" -> 3
      [] c = "4" -> 4 [] c = "5" -> 5 [] c = "6" -> 6 [] c = "7" -> 7
      [] c = "8" -> 8 [] c = "9" -> 9

\* The value of a run of decimal digits; underscores between digits do not count.
RECURSIVE Decimal(_, _)
Decimal(text, acc) ==
    IF text = <<>> THEN acc
    ELSE IF Head(text) = "_" THEN Decimal(Tail(text), acc)
    ELSE Decimal(Tail(text), 10 * acc + DigitValue(Head(text)))

ValueError == [ok |-> FALSE, value |-> 0]

\* int(text): surrounding whitespace is dropped, a sign may lead, and the rest
\* is decimal digits with single underscores between them; else ValueError.
int(text) ==
    LET s == Strip(text)
        signed == s # <<>> /\ Head(s) \in {"+", "-"}
        body == IF signed THEN Tail(s) ELSE s
        wellformed ==
            /\ body # <<>>
            /\ \A i \in 1..Len(body) : body[i] \in Digits \cup {"_"}
            /\ body[1] # "_" /\ body[Len(body)] # "_"
            /\ \A i \in 1..(Len(body) - 1) : ~(body[i] = "_" /\ body[i + 1] = "_")
    IN  IF ~wellformed THEN ValueError
        ELSE [ok |-> TRUE,
              value |-> IF signed /\ Head(s) = "-"
                        THEN 0 - Decimal(body, 0) ELSE Decimal(body, 0)]

\* agg is a dict in insertion order: rows <<word, decade, tf_sum, df_sum>>.
AggIndex(agg, word, decade) ==
    IF \E i \in 1..Len(agg) : agg[i][1] = word /\ agg[i][2] = decade
    THEN CHOOSE i \in 1..Len(agg) : agg[i][1] = word /\ agg[i][2] = decade
    ELSE 0

\* bucket[0] += tf; bucket[1] += df, overwriting the sums instead of adding.
AggAdd_Overwrite(agg, word, decade, tf, doc_freq) ==
    LET i == AggIndex(agg, word, decade)
    IN  IF i = 0
        THEN Append(agg, <<word, decade, tf, doc_freq>>)
        ELSE [agg EXCEPT ![i] = <<word, decade, tf, doc_freq>>]

\* bucket = agg[(word, decade)]; bucket[0] += tf; bucket[1] += df
AggAdd(agg, word, decade, tf, doc_freq) ==
    LET i == AggIndex(agg, word, decade)
    IN  IF i = 0
        THEN Append(agg, <<word, decade, tf, doc_freq>>)
        ELSE [agg EXCEPT ![i] = <<word, decade, @[3] + tf, @[4] + doc_freq>>]

\* A skipped line that is not counted.
Skip_NotCounted(u) == u

\* skipped += 1; continue
Skip(u) == [u EXCEPT !.skipped = @ + 1]

\* The locals of process_file before the first line.
ProcessStart ==
    [pc |-> "lines", pos |-> 0, agg |-> <<>>,
     total |-> 0, kept |-> 0, skipped |-> 0, table |-> <<>>]

\* A decade that rounds the year to the nearest ten.
DecadeOf_Rounded(year) == ((year + 5) \div 10) * 10

\* (year // 10) * 10, with Python's floor division.
DecadeOf(year) == (year \div 10) * 10

\* One pass of the loop body (lines 72-101) on one line of the file.
ProcessLine(u0, line) ==
    LET u == [u0 EXCEPT !.total = @ + 1]
        parts == Split(RStripNewline(line), "\t")
        word == extract_word(parts[1])
        year == int(parts[2])
        tf == int(parts[3])
        doc_freq == int(parts[4])
    IN  IF Len(parts) # 4 THEN Skip(u)
        ELSE IF word = None THEN Skip(u)
        ELSE IF ~year.ok \/ ~tf.ok \/ ~doc_freq.ok THEN Skip(u)
        ELSE [u EXCEPT !.agg = AggAdd(@, word, DecadeOf(year.value),
                                      tf.value, doc_freq.value),
                       !.kept = @ + 1]

\* (word, decade) < (word, decade) as Python orders the keys of agg.items().
ItemLess(a, b) == StrLess(a[1], b[1]) \/ (a[1] = b[1] /\ a[2] < b[2])

RECURSIVE ItemInsert(_, _)
ItemInsert(sorted, e) ==
    IF sorted = <<>> THEN <<e>>
    ELSE IF ItemLess(e, Head(sorted)) THEN <<e>> \o sorted
    ELSE <<Head(sorted)>> \o ItemInsert(Tail(sorted), e)

\* agg.items() in insertion order.
SortedItems_Unsorted(agg) == agg

\* sorted(agg.items())
RECURSIVE SortedItems(_)
SortedItems(agg) ==
    IF agg = <<>> THEN <<>>
    ELSE ItemInsert(SortedItems(SubSeq(agg, 1, Len(agg) - 1)), agg[Len(agg)])

\* for line in fh: the next line of the file.
ReadLine ==
    /\ unigrams.pc = "lines"
    /\ unigrams.pos < Len(lines)
    /\ unigrams' = [ProcessLine(unigrams, lines[unigrams.pos + 1])
                      EXCEPT !.pos = @ + 1]
    /\ UNCHANGED <<lines, files, build, output_dir, data_dir, cache, threads, parses, split, ret>>

\* Lines 105-126: the sorted table, written once the file is read.
WriteTable ==
    /\ unigrams.pc = "lines"
    /\ unigrams.pos = Len(lines)
    /\ unigrams' = [unigrams EXCEPT !.pc = "done", !.table = SortedItems(unigrams.agg)]
    /\ UNCHANGED <<lines, files, build, output_dir, data_dir, cache, threads, parses, split, ret>>

\* The table process_file writes for a whole file.
RECURSIVE ProcessLines(_, _)
ProcessLines(u, rest) ==
    IF rest = <<>> THEN u ELSE ProcessLines(ProcessLine(u, Head(rest)), Tail(rest))

process_file(input) == SortedItems(ProcessLines(ProcessStart, input).agg)

----------------------------------------------------------------------------
(* builder/package_release.py and gngram_counter/download_data.py: the     *)
(* release archive of the written shards, extracted under DATA_DIR.        *)

NoFiles == [prefix \in {} |-> <<>>]

\* package_release.main archives parquet-hash/*.parquet under the arcname
\* parquet-hash/; download_and_extract creates DATA_DIR and extracts the
\* archive into it.  With no shard written there is no archive: the download
\* fails after DATA_DIR was created.
Install ==
    /\ build.pc = "done"
    /\ data_dir' = [data_dir EXCEPT
            !.exists = TRUE,
            !.nested = IF DOMAIN output_dir # {} THEN output_dir ELSE @]
    /\ UNCHANGED <<lines, unigrams, files, build, output_dir, cache, threads, parses, split, ret>>

\* The flat layout get_hash_file also accepts: the shard files themselves
\* placed in DATA_DIR.
InstallFlat ==
    /\ build.pc = "done"
    /\ DOMAIN output_dir # {}
    /\ data_dir' = [data_dir EXCEPT !.exists = TRUE, !.flat = output_dir]
    /\ UNCHANGED <<lines, unigrams, files, build, output_dir, cache, threads, parses, split, ret>>

----------------------------------------------------------------------------
(* gngram_counter/data.py                                                  *)

FileNotFoundError == "FileNotFoundError"

\* The path get_hash_file returns, or the error it raises.
get_hash_file(prefix) ==
    IF prefix \in DOMAIN data_dir.flat THEN "direct"
    ELSE IF prefix \in DOMAIN data_dir.nested THEN "nested"
    ELSE FileNotFoundError

\* any(DATA_DIR.glob("**/*.parquet")) on an existing DATA_DIR.
is_data_installed ==
    /\ data_dir.exists
    /\ DOMAIN data_dir.flat \cup DOMAIN data_dir.nested # {}

\* pl.read_parquet(path)
read_parquet(path, prefix) ==
    IF path = "direct" THEN data_dir.flat[prefix] ELSE data_dir.nested[prefix]

----------------------------------------------------------------------------
(* gngram_counter/lookup.py                                                *)

CONTRACTION_SUFFIXES ==
    << <<"n", "'", "t">>, <<"'", "l", "l">>, <<"'", "r", "e">>,
       <<"'", "v", "e">>, <<"'", "m">>, <<"'", "d">> >>

S_CONTRACTION_STEMS ==
    { <<"i", "t">>, <<"h", "e">>, <<"s", "h", "e">>, <<"t", "h", "a", "t">>,
      <<"w", "h", "a", "t">>, <<"w", "h", "o">>,
      <<"w", "h", "e", "r", "e">>, <<"h", "o", "w">>, <<"h", "e", "r", "e">>,
      <<"t", "h", "e", "r", "e">>,
      <<"l", "e", "t">>,
      <<"s", "o", "m", "e", "b", "o", "d", "y">>,
      <<"e", "v", "e", "r", "y", "b", "o", "d", "y">>,
      <<"e", "v", "e", "r", "y", "o", "n", "e">>,
      <<"n", "o", "b", "o", "d", "y">>,
      <<"a", "n", "y", "w", "h", "e", "r", "e">>,
      <<"n", "o", "w", "h", "e", "r", "e">> }

CacheMaxSize == 256

\* What one API call threads through its steps: the lru_cache, and the log of
\* the _hash_word calls and _load_bucket calls it made.
StartCall(c) == [cache |-> c, hashed |-> <<>>, loads |-> <<>>, parsed |-> <<>>]

CacheIndex(c, prefix) ==
    IF \E i \in 1..Len(c) : c[i][1] = prefix
    THEN CHOOSE i \in 1..Len(c) : c[i][1] = prefix
    ELSE 0

Without(c, i) == SubSeq(c, 1, i - 1) \o SubSeq(c, i + 1, Len(c))

\* _load_bucket under an lru_cache holding a single entry.
_load_bucket_SingleEntry(prefix, ctx) ==
    LET i == CacheIndex(ctx.cache, prefix)
        logged == [ctx EXCEPT !.loads = Append(@, prefix)]
        path == get_hash_file(prefix)
    IN  IF i # 0
        THEN [raised |-> FALSE, df |-> ctx.cache[i][2],
              ctx |-> [logged EXCEPT !.cache = Append(Without(@, i), ctx.cache[i])]]
        ELSE IF path = FileNotFoundError
        THEN [raised |-> TRUE, df |-> <<>>, ctx |-> logged]
        ELSE LET df == read_parquet(path, prefix)
                 grown == Append(ctx.cache, <<prefix, df>>)
             IN  [raised |-> FALSE, df |-> df,
                  ctx |-> [logged EXCEPT !.parsed = Append(@, prefix),
                                         !.cache =
                              IF Len(grown) > 1 THEN Tail(grown) ELSE grown]]

\* _load_bucket under lru_cache(maxsize=256): a hit returns the cached frame
\* and makes it the most recent; a miss reads the file, stores the frame and
\* evicts the least recent one beyond the capacity; an exception stores nothing.
_load_bucket(prefix, ctx) ==
    LET i == CacheIndex(ctx.cache, prefix)
        logged == [ctx EXCEPT !.loads = Append(@, prefix)]
        path == get_hash_file(prefix)
    IN  IF i # 0
        THEN [raised |-> FALSE, df |-> ctx.cache[i][2],
              ctx |-> [logged EXCEPT !.cache = Append(Without(@, i), ctx.cache[i])]]
        ELSE IF path = FileNotFoundError
        THEN [raised |-> TRUE, df |-> <<>>, ctx |-> logged]
        ELSE LET df == read_parquet(path, prefix)
                 grown == Append(ctx.cache, <<prefix, df>>)
             IN  [raised |-> FALSE, df |-> df,
                  ctx |-> [logged EXCEPT !.parsed = Append(@, prefix),
                                         !.cache =
                              IF Len(grown) > CacheMaxSize THEN Tail(grown) ELSE grown]]

\* A caller that is not inside _load_bucket.
Idle == [pc |-> "idle", prefix |-> <<>>, df |-> <<>>, calls |-> 0]

NoParses == [p \in {} |-> 0]

\* (prefix, suffix) of the digest of normalize(word).
_hash_word(word) ==
    LET h == md5_hexdigest(normalize(word))
    IN  <<HexPrefix(h), HexSuffix(h)>>

\* None, and a FrequencyData built from a row of a frame.
FrequencyNone == [found |-> FALSE]

FrequencyData(row) ==
    [found |-> TRUE, peak_tf |-> row.peak_tf, peak_df |-> row.peak_df,
     sum_tf |-> row.sum_tf, sum_df |-> row.sum_df]

\* df.filter(pl.col("hash") == suffix)
FilterHash(df, suffix) == SelectSeq(df, LAMBDA row : row.hash = suffix)

\* _lookup_frequency without the early return on the empty string.
_lookup_frequency_NoEmptyCheck(word, ctx) ==
    LET hw == _hash_word(word)
        load == _load_bucket(hw[1], [ctx EXCEPT !.hashed = Append(@, word)])
        row == FilterHash(load.df, hw[2])
    IN  IF load.raised
        THEN [value |-> FrequencyNone, ctx |-> load.ctx]
        ELSE IF Len(row) = 0
        THEN [value |-> FrequencyNone, ctx |-> load.ctx]
        ELSE [value |-> FrequencyData(row[1]), ctx |-> load.ctx]

_lookup_frequency(word, ctx) ==
    IF word = <<>>
    THEN [value |-> FrequencyNone, ctx |-> ctx]
    ELSE LET hw == _hash_word(word)
             load == _load_bucket(hw[1], [ctx EXCEPT !.hashed = Append(@, word)])
             row == FilterHash(load.df, hw[2])
         IN  IF load.raised
             THEN [value |-> FrequencyNone, ctx |-> load.ctx]
             ELSE IF Len(row) = 0
             THEN [value |-> FrequencyNone, ctx |-> load.ctx]
             ELSE [value |-> FrequencyData(row[1]), ctx |-> load.ctx]

\* FirstSuffix without the `if stem:` test: a bare suffix matches too.
RECURSIVE FirstSuffix_EmptyStem(_, _)
FirstSuffix_EmptyStem(word, i) ==
    IF i > Len(CONTRACTION_SUFFIXES) THEN 0
    ELSE IF EndsWith(word, CONTRACTION_SUFFIXES[i])
    THEN i
    ELSE FirstSuffix_EmptyStem(word, i + 1)

\* The first suffix of CONTRACTION_SUFFIXES, from position i on, that the
\* word ends with leaving a non-empty stem; 0 if there is none.
RECURSIVE FirstSuffix(_, _)
FirstSuffix(word, i) ==
    IF i > Len(CONTRACTION_SUFFIXES) THEN 0
    ELSE IF /\ EndsWith(word, CONTRACTION_SUFFIXES[i])
            /\ Len(word) > Len(CONTRACTION_SUFFIXES[i])
    THEN i
    ELSE FirstSuffix(word, i + 1)

NoSplit == <<>>

\* _split_contraction taking 's off every stem, allowlisted or not.
_split_contraction_AnyS(word) ==
    LET i == FirstSuffix(word, 1)
        stem_s == SubSeq(word, 1, Len(word) - 2)
    IN  IF i # 0
        THEN <<SubSeq(word, 1, Len(word) - Len(CONTRACTION_SUFFIXES[i])),
               CONTRACTION_SUFFIXES[i]>>
        ELSE IF EndsWith(word, <<"'", "s">>)
        THEN <<stem_s, <<"'", "s">>>>
        ELSE NoSplit

\* <<stem, suffix>>, or NoSplit for None.
_split_contraction(word) ==
    LET i == FirstSuffix(word, 1)
        stem_s == SubSeq(word, 1, Len(word) - 2)
    IN  IF i # 0
        THEN <<SubSeq(word, 1, Len(word) - Len(CONTRACTION_SUFFIXES[i])),
               CONTRACTION_SUFFIXES[i]>>
        ELSE IF EndsWith(word, <<"'", "s">>) /\ stem_s \in S_CONTRACTION_STEMS
        THEN <<stem_s, <<"'", "s">>>>
        ELSE NoSplit

\* A call of _split_contraction(word) about to be made, and the call made.
SplitStart(word) == [pc |-> "call", word |-> word, result |-> NoSplit]

SplitCall ==
    /\ split.pc = "call"
    /\ split' = [split EXCEPT !.pc = "done",
                              !.result = _split_contraction(split.word)]
    /\ UNCHANGED <<lines, unigrams, files, build, output_dir, data_dir, cache,
                   threads, parses, ret>>

NotInstalled == "Data files not installed"
NotFoundForPrefix == "Data file not found for prefix"

\* The outcome of an API call: the message of the FileNotFoundError it raised
\* ("" if it returned), and the value it returned.
Outcome(raised, bool, freq, batch, ctx) ==
    [raised |-> raised, bool |-> bool, freq |-> freq, batch |-> batch, ctx |-> ctx]

NoBatch == [word \in {} |-> FrequencyNone]

\* exists without the contraction fallback.
exists_DirectOnly(word, c) ==
    IF ~is_data_installed
    THEN Outcome(NotInstalled, FALSE, FrequencyNone, NoBatch, StartCall(c))
    ELSE LET direct == _lookup_frequency(normalize(word), StartCall(c))
         IN  Outcome("", direct.value # FrequencyNone, FrequencyNone, NoBatch, direct.ctx)

\* exists splitting the word as given, without normalizing it first.
exists_Unnormalized(word, c) ==
    IF ~is_data_installed
    THEN Outcome(NotInstalled, FALSE, FrequencyNone, NoBatch, StartCall(c))
    ELSE LET direct == _lookup_frequency(word, StartCall(c))
             parts == _split_contraction(word)
             stem == _lookup_frequency(parts[1], direct.ctx)
         IN  IF direct.value # FrequencyNone
             THEN Outcome("", TRUE, FrequencyNone, NoBatch, direct.ctx)
             ELSE IF parts # NoSplit
             THEN Outcome("", stem.value # FrequencyNone, FrequencyNone, NoBatch, stem.ctx)
             ELSE Outcome("", FALSE, FrequencyNone, NoBatch, direct.ctx)

exists(word, c) ==
    IF ~is_data_installed
    THEN Outcome(NotInstalled, FALSE, FrequencyNone, NoBatch, StartCall(c))
    ELSE LET w == normalize(word)
             direct == _lookup_frequency(w, StartCall(c))
             parts == _split_contraction(w)
             stem == _lookup_frequency(parts[1], direct.ctx)
         IN  IF direct.value # FrequencyNone
             THEN Outcome("", TRUE, FrequencyNone, NoBatch, direct.ctx)
             ELSE IF parts # NoSplit
             THEN Outcome("", stem.value # FrequencyNone, FrequencyNone, NoBatch, stem.ctx)
             ELSE Outcome("", FALSE, FrequencyNone, NoBatch, direct.ctx)

\* frequency with a fallback that splits the stem again when it misses.
RECURSIVE FallbackResplit(_, _)
FallbackResplit(w, ctx) ==
    LET result == _lookup_frequency(w, ctx)
        parts == _split_contraction(w)
    IN  IF result.value # FrequencyNone \/ parts = NoSplit THEN result
        ELSE FallbackResplit(parts[1], result.ctx)

frequency_Resplit(word, c) ==
    IF ~is_data_installed
    THEN Outcome(NotInstalled, FALSE, FrequencyNone, NoBatch, StartCall(c))
    ELSE LET result == FallbackResplit(normalize(word), StartCall(c))
         IN  Outcome("", FALSE, result.value, NoBatch, result.ctx)

frequency(word, c) ==
    IF ~is_data_installed
    THEN Outcome(NotInstalled, FALSE, FrequencyNone, NoBatch, StartCall(c))
    ELSE LET w == normalize(word)
             result == _lookup_frequency(w, StartCall(c))
             parts == _split_contraction(w)
             stem_freq == _lookup_frequency(parts[1], result.ctx)
         IN  IF result.value # FrequencyNone
             THEN Outcome("", FALSE, result.value, NoBatch, result.ctx)
             ELSE IF parts # NoSplit
             THEN Outcome("", FALSE, stem_freq.value, NoBatch, stem_freq.ctx)
             ELSE Outcome("", FALSE, FrequencyNone, NoBatch, result.ctx)

\* results[key] = value on a dict.
DictSet(d, key, value) ==
    [k \in DOMAIN d \cup {key} |-> IF k = key THEN value ELSE d[k]]

\* An entry that keeps the normalized form in place of the word as given.
BatchEntry_NormalizedKey(word) ==
    LET normalized == normalize(word)
        hw == _hash_word(normalized)
    IN  [word |-> normalized, normalized |-> normalized,
         prefix |-> hw[1], suffix |-> hw[2]]

\* Lines 203-208: one (word, normalized, suffix) entry per input word, with
\* the prefix its digest selects.
BatchEntry(word) ==
    LET normalized == normalize(word)
        hw == _hash_word(normalized)
    IN  [word |-> word, normalized |-> normalized, prefix |-> hw[1], suffix |-> hw[2]]

\* The keys of by_prefix in insertion order.
RECURSIVE PrefixOrder(_, _)
PrefixOrder(entries, seen) ==
    IF entries = <<>> THEN seen
    ELSE PrefixOrder(Tail(entries),
                     IF Head(entries).prefix \in Range(seen)
                     THEN seen ELSE Append(seen, Head(entries).prefix))

\* match_dict = {row["hash"]: row for row in matches}: of several rows with
\* one hash the last one stays.
MatchDict(df, suffixes) ==
    LET matches == SelectSeq(df, LAMBDA row : row.hash \in suffixes)
    IN  [h \in {matches[i].hash : i \in 1..Len(matches)} |->
            matches[CHOOSE i \in 1..Len(matches) :
                        /\ matches[i].hash = h
                        /\ \A j \in (i + 1)..Len(matches) : matches[j].hash # h]]

\* Lines 220-232 for the entries of one prefix.
RECURSIVE BatchEntries(_, _, _)
BatchEntries(entries, match_dict, acc) ==
    IF entries = <<>> THEN acc
    ELSE LET e == Head(entries)
         IN  BatchEntries(Tail(entries), match_dict,
                IF e.suffix \in DOMAIN match_dict
                THEN [acc EXCEPT !.results =
                        DictSet(@, e.word, FrequencyData(match_dict[e.suffix]))]
                ELSE [acc EXCEPT !.results = DictSet(@, e.word, FrequencyNone),
                                 !.contraction_words = Append(@, e.word)])

\* Lines 212-232: the loop over by_prefix; a _load_bucket that raises ends the call.
RECURSIVE BatchPrefixes(_, _, _)
BatchPrefixes(prefixes, entries, acc) ==
    IF prefixes = <<>> THEN acc
    ELSE LET prefix == Head(prefixes)
             mine == SelectSeq(entries, LAMBDA e : e.prefix = prefix)
             load == _load_bucket(prefix, acc.ctx)
             suffixes == {mine[i].suffix : i \in 1..Len(mine)}
         IN  IF load.raised
             THEN [acc EXCEPT !.raised = NotFoundForPrefix, !.ctx = load.ctx]
             ELSE BatchPrefixes(Tail(prefixes), entries,
                    BatchEntries(mine, MatchDict(load.df, suffixes),
                                 [acc EXCEPT !.ctx = load.ctx]))

\* Lines 234-242: the contraction fallback for the words not found directly.
RECURSIVE BatchFallback(_, _)
BatchFallback(words, acc) ==
    IF words = <<>> THEN acc
    ELSE LET word == Head(words)
             parts == _split_contraction(normalize(word))
             stem_freq == _lookup_frequency(parts[1], acc.ctx)
         IN  BatchFallback(Tail(words),
                IF parts = NoSplit THEN acc
                ELSE IF stem_freq.value # FrequencyNone
                THEN [acc EXCEPT !.results = DictSet(@, word, stem_freq.value),
                                 !.ctx = stem_freq.ctx]
                ELSE [acc EXCEPT !.ctx = stem_freq.ctx])

\* batch_frequency without the installation check.
batch_frequency_Unchecked(words, c) ==
    LET entries == [i \in 1..Len(words) |-> BatchEntry(words[i])]
        hashing == [StartCall(c) EXCEPT !.hashed =
                       [i \in 1..Len(words) |-> entries[i].normalized]]
        direct == BatchPrefixes(PrefixOrder(entries, <<>>), entries,
                     [raised |-> "", results |-> NoBatch,
                      contraction_words |-> <<>>, ctx |-> hashing])
        done == BatchFallback(direct.contraction_words, direct)
    IN  IF direct.raised # ""
        THEN Outcome(direct.raised, FALSE, FrequencyNone, NoBatch, direct.ctx)
        ELSE Outcome("", FALSE, FrequencyNone, done.results, done.ctx)

batch_frequency(words, c) ==
    IF ~is_data_installed
    THEN Outcome(NotInstalled, FALSE, FrequencyNone, NoBatch, StartCall(c))
    ELSE LET entries == [i \in 1..Len(words) |-> BatchEntry(words[i])]
             hashing == [StartCall(c) EXCEPT !.hashed =
                            [i \in 1..Len(words) |-> entries[i].normalized]]
             direct == BatchPrefixes(PrefixOrder(entries, <<>>), entries,
                          [raised |-> "", results |-> NoBatch,
                           contraction_words |-> <<>>, ctx |-> hashing])
             done == BatchFallback(direct.contraction_words, direct)
         IN  IF direct.raised # ""
             THEN Outcome(direct.raised, FALSE, FrequencyNone, NoBatch, direct.ctx)
             ELSE Outcome("", FALSE, FrequencyNone, done.results, done.ctx)

----------------------------------------------------------------------------
(* The calls of the API.  A call is recorded in ret with its argument (a   *)
(* list of words: one word for exists and frequency), its outcome and the  *)
(* words it hashed and prefixes it asked _load_bucket for.                 *)

\* The parse counts after the files of these prefixes were parsed once more.
RECURSIVE Parsed(_, _)
Parsed(counts, prefixes) ==
    IF prefixes = <<>> THEN counts
    ELSE LET p == Head(prefixes)
         IN  Parsed(IF p \in DOMAIN counts
                    THEN [counts EXCEPT ![p] = @ + 1]
                    ELSE counts @@ (p :> 1),
                    Tail(prefixes))

Returned(op, arg, out) ==
    [op |-> op, arg |-> arg, raised |-> out.raised, bool |-> out.bool,
     freq |-> out.freq, batch |-> out.batch,
     hashed |-> out.ctx.hashed, loads |-> out.ctx.loads]

\* The words the model queries.
QueryWords ==
    { <<>>,                                            \* ""
      <<"d", "o">>,                                    \* "do"
      <<"D", "o", "n", "U+2019", "t">>,                \* "Don't" with a curly apostrophe
      <<"d", "o", "n", "'", "t", "'", "v", "e">>,      \* "don't've"
      <<"c", "a", "t">>,                               \* "cat"
      <<"d", "o", "g", "'", "s">>,                     \* "dog's"
      <<"7">>,                                         \* "7"
      <<" ">> }                                        \* " "

\* The words of the lists handed to batch_frequency.
BatchWords ==
    { <<>>, <<"d", "o">>, <<"D", "o", "n", "U+2019", "t">> }

WordLists == UNION {[1..n -> BatchWords] : n \in 0..MaxBatch}

CallExists ==
    \E word \in QueryWords :
        /\ build.pc = "done"
        /\ LET out == exists(word, cache)
           IN  /\ cache' = out.ctx.cache
               /\ parses' = Parsed(parses, out.ctx.parsed)
               /\ ret' = Returned("exists", <<word>>, out)
        /\ UNCHANGED <<lines, unigrams, files, build, output_dir, data_dir, threads, split>>

CallFrequency ==
    \E word \in QueryWords :
        /\ build.pc = "done"
        /\ LET out == frequency(word, cache)
           IN  /\ cache' = out.ctx.cache
               /\ parses' = Parsed(parses, out.ctx.parsed)
               /\ ret' = Returned("frequency", <<word>>, out)
        /\ UNCHANGED <<lines, unigrams, files, build, output_dir, data_dir, threads, split>>

CallBatchFrequency ==
    \E words \in WordLists :
        /\ build.pc = "done"
        /\ LET out == batch_frequency(words, cache)
           IN  /\ cache' = out.ctx.cache
               /\ parses' = Parsed(parses, out.ctx.parsed)
               /\ ret' = Returned("batch_frequency", words, out)
        /\ UNCHANGED <<lines, unigrams, files, build, output_dir, data_dir, threads, split>>

----------------------------------------------------------------------------
(* Concurrent callers of _load_bucket (lookup.py 51-54).  functools'        *)
(* lru_cache looks the key up and, on a miss, calls the function without    *)
(* holding anything; when the call returns it stores the result unless the  *)
(* key has been stored meanwhile.  A caller is at "idle" (outside the       *)
(* call), "miss" (the key was not cached, the function is to be called) or  *)
(* "store" (the shard is parsed, the result is to be stored).               *)

\* The words concurrent lookups ask for: "cat" has no shard in any store.
ThreadWords == { <<"d", "o">>, <<"s", "e", "l", "f">>, <<"c", "a", "t">> }

ThreadPrefixes == {_hash_word(w)[1] : w \in ThreadWords}

\* The key is cached: the frame is returned and becomes the most recent.
LoadHit ==
    \E t \in 1..NumThreads, prefix \in ThreadPrefixes :
        LET i == CacheIndex(cache, prefix)
        IN  /\ is_data_installed
            /\ threads[t].pc = "idle"
            /\ threads[t].calls < MaxCalls
            /\ i # 0
            /\ cache' = Append(Without(cache, i), cache[i])
            /\ threads' = [threads EXCEPT ![t].calls = @ + 1]
            /\ UNCHANGED <<lines, unigrams, files, build, output_dir, data_dir,
                           parses, split, ret>>

\* The key is not cached: the caller goes on to call the function.
LoadMiss ==
    \E t \in 1..NumThreads, prefix \in ThreadPrefixes :
        /\ is_data_installed
        /\ threads[t].pc = "idle"
        /\ threads[t].calls < MaxCalls
        /\ CacheIndex(cache, prefix) = 0
        /\ threads' = [threads EXCEPT ![t].pc = "miss", ![t].prefix = prefix,
                                       ![t].calls = @ + 1]
        /\ UNCHANGED <<lines, unigrams, files, build, output_dir, data_dir,
                       cache, parses, split, ret>>

\* pl.read_parquet(get_hash_file(prefix)): the file is parsed, or
\* FileNotFoundError ends the call with nothing stored.
LoadRead ==
    \E t \in 1..NumThreads :
        LET prefix == threads[t].prefix
            path == get_hash_file(prefix)
        IN  /\ threads[t].pc = "miss"
            /\ IF path = FileNotFoundError
               THEN /\ threads' = [threads EXCEPT ![t].pc = "idle", ![t].prefix = <<>>]
                    /\ parses' = parses
               ELSE /\ threads' = [threads EXCEPT ![t].pc = "store",
                                       ![t].df = read_parquet(path, prefix)]
                    /\ parses' = Parsed(parses, <<prefix>>)
            /\ UNCHANGED <<lines, unigrams, files, build, output_dir, data_dir,
                           cache, split, ret>>

\* The result is stored as the most recent entry, the least recent one going
\* beyond the capacity, unless the key has been stored during the call.
LoadStore ==
    \E t \in 1..NumThreads :
        LET prefix == threads[t].prefix
            grown == Append(cache, <<prefix, threads[t].df>>)
        IN  /\ threads[t].pc = "store"
            /\ cache' = IF CacheIndex(cache, prefix) # 0 THEN cache
                         ELSE IF Len(grown) > CacheMaxSize THEN Tail(grown)
                         ELSE grown
            /\ threads' = [threads EXCEPT ![t].pc = "idle", ![t].prefix = <<>>,
                                           ![t].df = <<>>]
            /\ UNCHANGED <<lines, unigrams, files, build, output_dir, data_dir,
                           parses, split, ret>>

----------------------------------------------------------------------------
(* The aggregated tables a build reads: each strictly ascending in         *)
(* (word, decade), as the Aggregator writes them.                          *)

BuildWords == { <<"d", "o">>, <<"s", "e", "l", "f">> }
BuildDecades == {1950, 1960}
BuildCounts == { <<1, 2>>, <<2, 1>> }      \* (tf, df) of a row

Rows(counts) ==
    {<<w, d, c[1], c[2]>> : w \in BuildWords, d \in BuildDecades, c \in counts}

KeyLess(r, s) == StrLess(r[1], s[1]) \/ (r[1] = s[1] /\ r[2] < s[2])

SortedTables(n, pool) ==
    {t \in [1..n -> pool] : \A i \in 1..(n - 1) : KeyLess(t[i], t[i + 1])}

\* Lists of k tables holding at most n rows together.
RECURSIVE FileLists(_, _, _)
FileLists(k, n, pool) ==
    IF k = 0 THEN {<<>>}
    ELSE UNION {{<<t>> \o rest : t \in SortedTables(m, pool),
                                 rest \in FileLists(k - 1, n - m, pool)} :
                m \in 0..n}

InitRuntime ==
    /\ unigrams = ProcessStart
    /\ build = BuildStart
    /\ output_dir = NoFiles
    /\ data_dir = [exists |-> FALSE, flat |-> NoFiles, nested |-> NoFiles]
    /\ cache = <<>>
    /\ threads = [t \in 1..NumThreads |-> Idle]
    /\ parses = NoParses
    /\ split = [pc |-> "done", word |-> <<>>, result |-> NoSplit]
    /\ ret = Returned("none", <<>>,
                 Outcome("", FALSE, FrequencyNone, NoBatch, StartCall(<<>>)))

\* The whole pipeline on one aggregated table.
Init ==
    /\ lines = <<>>
    /\ files \in FileLists(1, MaxRows, Rows({<<1, 2>>}))
    /\ InitRuntime

Next ==
    \/ BuildRow
    \/ FlushLast
    \/ WriteShards
    \/ Install
    \/ InstallFlat
    \/ CallExists
    \/ CallFrequency
    \/ CallBatchFrequency

Spec == Init /\ [][Next]_vars

\* The whole pipeline on a table of words whose shards the possessive and
\* digit queries fall into: md5("dog's") and md5("stop") start with "ef",
\* md5("7") and md5("the") with "8f".
AltWords == { <<"d", "o", "g">>, <<"s", "t", "o", "p">>, <<"t", "h", "e">> }

AltRows == {<<w, 1950, 1, 2>> : w \in AltWords}

InitAlt ==
    /\ lines = <<>>
    /\ files \in FileLists(1, MaxRows, AltRows)
    /\ InitRuntime

SpecAlt == InitAlt /\ [][Next]_vars

\* Build, install and concurrent callers of _load_bucket.
NextConc ==
    \/ BuildRow
    \/ FlushLast
    \/ WriteShards
    \/ Install
    \/ LoadHit
    \/ LoadMiss
    \/ LoadRead
    \/ LoadStore

SpecConc == Init /\ [][NextConc]_vars

\* The Shard Builder on one or more partition tables.
InitBuild ==
    /\ lines = <<>>
    /\ files \in UNION {FileLists(k, MaxRows, Rows(BuildCounts)) : k \in 1..MaxFiles}
    /\ InitRuntime

NextBuild ==
    \/ BuildRow
    \/ FlushLast
    \/ WriteShards

SpecBuild == InitBuild /\ [][NextBuild]_vars

\* The Shard Builder on one aggregated table with decades below the page
\* threshold (1790), absent from the corpus totals (1780) and above it, and
\* with counts that tie once normalized (1 in 1950, 2 in 1960).
PeakCounts == { <<0, 0>>, <<1, 2>>, <<2, 1>>, <<0, 2>>, <<2, 0>> }

PeakRows ==
    {<<<<"d", "o">>, d, c[1], c[2]>> : d \in {1780, 1790, 1950, 1960}, c \in PeakCounts}
    \cup {<<<<"s", "e", "l", "f">>, d, c[1], c[2]>> : d \in {1790, 1950}, c \in PeakCounts}

InitPeaks ==
    /\ lines = <<>>
    /\ files \in FileLists(1, MaxRows, PeakRows)
    /\ InitRuntime

SpecPeaks == InitPeaks /\ [][NextBuild]_vars

\* Lines of the raw 1-gram file: ngram TAB year TAB tf TAB df NEWLINE.
RawLines ==
    {
      \* "the_DET", 1950, 100, 10
      <<"t", "h", "e", "_", "D", "E", "T", "\t", "1", "9", "5", "0", "\t", "1", "0", "0", "\t", "1", "0", "\n">>,
      \* "the_DET", 1955, 50, 5
      <<"t", "h", "e", "_", "D", "E", "T", "\t", "1", "9", "5", "5", "\t", "5", "0", "\t", "5", "\n">>,
      \* "The", 1961, 1, 1
      <<"T", "h", "e", "\t", "1", "9", "6", "1", "\t", "1", "\t", "1", "\n">>,
      \* "do.1_VERB", 1950, "+3", " 4": int() takes both
      <<"d", "o", ".", "1", "_", "V", "E", "R", "B", "\t", "1", "9", "5", "0", "\t", "+", "3", "\t", " ", "4", "\n">>,
      \* three fields
      <<"t", "h", "e", "\t", "1", "9", "5", "0", "\t", "1", "0", "0", "\n">>,
      \* the bare part is empty
      <<"_", "D", "E", "T", "\t", "1", "9", "5", "0", "\t", "1", "\t", "1", "\n">>,
      \* the bare part is not alphabetic
      <<"t", "h", "3", "\t", "1", "9", "5", "0", "\t", "1", "\t", "1", "\n">>,
      \* the year is no integer
      <<"t", "h", "e", "\t", "1", "9", "x", "0", "\t", "1", "\t", "1", "\n">> }

LineLists == UNION {[1..n -> RawLines] : n \in 0..MaxLines}

\* The Aggregator on one raw file.
InitAgg ==
    /\ lines \in LineLists
    /\ files = <<>>
    /\ InitRuntime

NextAgg ==
    \/ ReadLine
    \/ WriteTable

SpecAgg == InitAgg /\ [][NextAgg]_vars

----------------------------------------------------------------------------
(* What the claims speak of.                                               *)

StreamWords == {Stream[i][1] : i \in 1..Len(Stream)}

RowsOf(word) == SelectSeq(Stream, LAMBDA row : row[1] = word)

\* All rows of a word are contiguous in the stream.
WordGrouped ==
    \A i \in 1..Len(Stream) : \A j \in i..Len(Stream) :
        Stream[i][1] = Stream[j][1] =>
            \A k \in i..j : Stream[k][1] = Stream[i][1]

\* The rows of a word in the written shards.
ShardRowsOf(word) ==
    LET h == md5_hexdigest(word)
    IN  IF HexPrefix(h) \in DOMAIN output_dir
        THEN FilterHash(output_dir[HexPrefix(h)], HexSuffix(h))
        ELSE <<>>

RECURSIVE TotalRows(_)
TotalRows(prefixes) ==
    IF prefixes = {} THEN 0
    ELSE LET p == CHOOSE q \in prefixes : TRUE
         IN  Len(output_dir[p]) + TotalRows(prefixes \ {p})

Splits(word) == _split_contraction(word) # NoSplit

Direct(word) == _lookup_frequency(word, StartCall(cache)).value

\* C1: on a store that passes the installation check, batch_frequency(words)
\* returns, and maps every input word to what frequency(word) returns on the
\* same store.
C1_BatchMatchesSingle ==
    (ret.op = "batch_frequency" /\ ret.raised # NotInstalled) =>
        /\ ret.raised = ""
        /\ \A i \in 1..Len(ret.arg) :
            /\ frequency(ret.arg[i], cache).raised = ""
            /\ ret.arg[i] \in DOMAIN ret.batch
            /\ ret.batch[ret.arg[i]] = frequency(ret.arg[i], cache).freq

\* C2 (as stated): every normalized word w that splits into (s, suffix) has
\* exists(w) = exists(s), and frequency(w) = frequency(s) whenever exists(s).
C2_ContractionLaw ==
    (/\ ret.op \in {"exists", "frequency"}
     /\ ret.raised = ""
     /\ Splits(normalize(ret.arg[1]))) =>
        LET s == _split_contraction(normalize(ret.arg[1]))[1]
        IN  /\ ret.op = "exists" => ret.bool = exists(s, cache).bool
            /\ (ret.op = "frequency" /\ exists(s, cache).bool) =>
                   ret.freq = frequency(s, cache).freq

\* C2 (amended): the fallback is one level deep.  For every normalized word w
\* that splits into (s, suffix), exists(w) holds iff w or s has a row under
\* the direct lookup and frequency(w) is w's row, else s's row, else
\* not-found; when w has no row and s does not split again, exists(w) =
\* exists(s) and frequency(w) = frequency(s).
C2_SingleLevelContractionLaw ==
    is_data_installed =>
        \A q \in QueryWords :
            LET w == normalize(q)
                s == _split_contraction(w)[1]
            IN  Splits(w) =>
                    /\ exists(w, cache).bool =
                           (Direct(w) # FrequencyNone \/ Direct(s) # FrequencyNone)
                    /\ frequency(w, cache).freq =
                           IF Direct(w) # FrequencyNone THEN Direct(w) ELSE Direct(s)
                    /\ (Direct(w) = FrequencyNone /\ ~Splits(normalize(s))) =>
                           /\ exists(w, cache).bool = exists(s, cache).bool
                           /\ frequency(w, cache).freq = frequency(s, cache).freq

\* C2 witness: frequency of a contraction returned the summary of its stem.
C2_Witness ==
    /\ ret.op = "frequency"
    /\ ret.raised = ""
    /\ Splits(normalize(ret.arg[1]))
    /\ ret.freq.found
    /\ ret.freq = Direct(_split_contraction(normalize(ret.arg[1]))[1])

\* C3: after a build over a word-grouped stream the written shards hold
\* exactly one row per distinct word of the stream and no other row; an empty
\* stream gives no row.
C3_OneRowPerWord ==
    (build.pc = "done" /\ WordGrouped) =>
        /\ \A word \in StreamWords : Len(ShardRowsOf(word)) = 1
        /\ TotalRows(DOMAIN output_dir) = Cardinality(StreamWords)
        /\ build.word_count = Cardinality(StreamWords)

\* C3 witness: a finished build of a grouped stream of two words, the last
\* word of the stream having several rows.
C3_Witness ==
    /\ build.pc = "done"
    /\ WordGrouped
    /\ Cardinality(StreamWords) = 2
    /\ Len(RowsOf(Stream[Len(Stream)][1])) >= 2

\* C4: given several partitions, each sorted by (word, decade), the build
\* emits exactly one row per word, whose sum_tf and sum_df cover the word's
\* rows of all partitions.
C4_PartitionsMerged ==
    build.pc = "done" =>
        \A word \in StreamWords :
            /\ Len(ShardRowsOf(word)) = 1
            /\ ShardRowsOf(word)[1].sum_tf = SumOver(RowsOf(word), 3)
            /\ ShardRowsOf(word)[1].sum_df = SumOver(RowsOf(word), 4)

\* C5: after a build of an aggregated table, every word of the table with
\* sum_tf > 0 is found by exists, and frequency returns the sums of the
\* word's tf and df over its decade rows.
C5_RoundTrip ==
    is_data_installed =>
        \A word \in StreamWords :
            SumOver(RowsOf(word), 3) > 0 =>
                /\ exists(word, cache).raised = ""
                /\ exists(word, cache).bool
                /\ frequency(word, cache).raised = ""
                /\ frequency(word, cache).freq.found
                /\ frequency(word, cache).freq.sum_tf = SumOver(RowsOf(word), 3)
                /\ frequency(word, cache).freq.sum_df = SumOver(RowsOf(word), 4)

\* C5 witness: frequency was called on a word of the table that has rows in
\* two decades, and returned their sums.
C5_Witness ==
    /\ ret.op = "frequency"
    /\ ret.arg[1] \in StreamWords
    /\ Len(RowsOf(ret.arg[1])) = 2
    /\ ret.freq.found
    /\ ret.freq.sum_tf = SumOver(RowsOf(ret.arg[1]), 3)

\* C6: after every build a shard file exists for each of the 256 prefixes.
C6_AllShardsWritten ==
    build.pc = "done" => DOMAIN output_dir = Prefixes

\* C7: when the shard a lookup of exists or frequency asks for is absent, the
\* call fails with a missing-data error; it does not return.
C7_MissingShardIsAnError ==
    (/\ ret.op \in {"exists", "frequency"}
     /\ \E i \in 1..Len(ret.loads) : get_hash_file(ret.loads[i]) = FileNotFoundError)
        => ret.raised # ""

\* C8: a call made while the installation check is false raises the
\* data-not-installed error, hashes nothing, asks for no shard and leaves the
\* cache as it was.
C8_NotInstalledRaisesFirst ==
    [][~is_data_installed =>
          /\ cache' = cache
          /\ ret' # ret =>
                /\ ret'.raised = NotInstalled
                /\ ret'.hashed = <<>>
                /\ ret'.loads = <<>>
                /\ ret'.batch = NoBatch]_vars

\* C8 witness: batch_frequency([]) was called on an existing DATA_DIR without
\* shard files and raised.
C8_Witness ==
    /\ ret.op = "batch_frequency"
    /\ ret.arg = <<>>
    /\ ret.raised = NotInstalled
    /\ data_dir.exists
    /\ ~is_data_installed

\* C9: whenever is_data_installed() is true, get_hash_file succeeds for every
\* one of the 256 prefixes.
C9_InstalledMeansAllShards ==
    is_data_installed =>
        \A prefix \in Prefixes : get_hash_file(prefix) # FileNotFoundError

----------------------------------------------------------------------------
(* Normalization equivalence (lookup.py 57-60, 123, 160).                   *)

\* Spellings of the queried words that differ in letter case, in surrounding
\* whitespace or in the apostrophe character.
Spellings ==
    { <<>>, <<" ">>, <<"\t", " ">>,
      <<"d", "o">>, <<"D", "O">>, <<" ", "D", "o", "\n">>,
      <<"d", "o", "n", "'", "t">>,
      <<"D", "o", "n", "U+2019", "t">>,
      <<"D", "O", "N", "U+0060", "T", " ">>,
      <<"d", "o", "n", "U+A78B", "t">>,
      <<"C", "A", "T">> }

\* What a call reports to its caller: the exception, the boolean, the record.
Reported(out) == <<out.raised, out.bool, out.freq>>

\* C11: two inputs with the same normalized form get the same (prefix,
\* suffix) from _hash_word, and exists and frequency report the same result
\* for both on the same shard store.
C11_NormalizedEquivalence ==
    \A w1 \in Spellings, w2 \in Spellings :
        w1 # w2 /\ normalize(w1) = normalize(w2) =>
            /\ _hash_word(w1) = _hash_word(w2)
            /\ Reported(exists(w1, cache)) = Reported(exists(w2, cache))
            /\ Reported(frequency(w1, cache)) = Reported(frequency(w2, cache))

\* frequency("Don't") with a curly apostrophe and a capital has returned a
\* record, the one frequency("don't") reports, and exists agrees for both.
C11_Witness ==
    /\ ret.op = "frequency"
    /\ ret.arg = << <<"D", "o", "n", "U+2019", "t">> >>
    /\ ret.arg[1] # normalize(ret.arg[1])
    /\ ret.freq # FrequencyNone
    /\ ret.freq = frequency(<<"d", "o", "n", "'", "t">>, cache).freq
    /\ exists(ret.arg[1], cache).bool
    /\ exists(<<"D", "O", "N", "U+0060", "T", " ">>, cache).bool

----------------------------------------------------------------------------
(* Possessives (lookup.py 99-105).                                          *)

\* Normalized words ending in 's.
Possessives ==
    { <<"d", "o", "g", "'", "s">>, <<"t", "h", "e", "'", "s">>,
      <<"i", "t", "'", "s">> }

\* The word has a row in the shard file of its prefix.
HasRow(word) ==
    LET h == md5_hexdigest(word)
        path == get_hash_file(HexPrefix(h))
    IN  /\ path # FileNotFoundError
        /\ \E i \in DOMAIN read_parquet(path, HexPrefix(h)) :
               read_parquet(path, HexPrefix(h))[i].hash = HexSuffix(h)

\* C12: a normalized word ending in 's whose stem is not in the allowlist is
\* not split, and frequency returns a record for it, and exists true, only
\* if the word itself has a row in its shard, whether or not its stem has one.
C12_PossessiveExclusion ==
    \A w \in Possessives :
        SubSeq(w, 1, Len(w) - 2) \notin S_CONTRACTION_STEMS =>
            /\ _split_contraction(w) = NoSplit
            /\ is_data_installed =>
                   /\ frequency(w, cache).raised = ""
                   /\ exists(w, cache).raised = ""
                   /\ (frequency(w, cache).freq # FrequencyNone) = HasRow(w)
                   /\ exists(w, cache).bool = HasRow(w)

\* frequency("dog's") has read the shard of "dog's", found no row and returned
\* None while "dog" has a row in the store.
C12_Witness ==
    /\ ret.op = "frequency"
    /\ ret.arg = << <<"d", "o", "g", "'", "s">> >>
    /\ ret.raised = ""
    /\ ret.freq = FrequencyNone
    /\ ret.hashed = ret.arg
    /\ CacheIndex(cache, HexPrefix(md5_hexdigest(ret.arg[1]))) # 0
    /\ ~HasRow(ret.arg[1])
    /\ HasRow(<<"d", "o", "g">>)
    /\ ~exists(ret.arg[1], cache).bool

----------------------------------------------------------------------------
(* The keys of a batch result (lookup.py 203-244).                          *)

\* C13: the mapping batch_frequency(words) returns has exactly the input
\* strings, as given, as its keys, found or not; the empty list gives the
\* empty mapping.
C13_BatchKeysAreInputs ==
    (ret.op = "batch_frequency" /\ ret.raised = "") =>
        /\ DOMAIN ret.batch = Range(ret.arg)
        /\ ret.arg = <<>> => ret.batch = NoBatch

\* A batch of "Don't" (capital, curly apostrophe) and "" has returned: the
\* first is found under the key as given, its normalized form is no key, and
\* the second is a key that maps to None.
C13_Witness ==
    /\ ret.op = "batch_frequency"
    /\ ret.raised = ""
    /\ ret.arg = << <<"D", "o", "n", "U+2019", "t">>, <<>> >>
    /\ ret.batch[ret.arg[1]] # FrequencyNone
    /\ normalize(ret.arg[1]) \notin DOMAIN ret.batch
    /\ ret.batch[<<>>] = FrequencyNone

----------------------------------------------------------------------------
(* Empty and digit queries (lookup.py 63-66).                               *)

\* Queries that are empty or blank, or hold a digit.
EmptyOrDigitQueries ==
    { <<>>, <<" ">>, <<"\t", " ", "\n">>, <<"7">>, <<" ", "7">> }

\* C14: on the shards of a build, a query whose normalized form is empty or
\* holds a digit gets False from exists and None from frequency; for the empty
\* normalized form no word is hashed and no shard is asked for.
C14_EmptyAndDigitNotFound ==
    is_data_installed =>
        \A w \in EmptyOrDigitQueries \cup QueryWords :
            LET n == normalize(w)
                e == exists(w, cache)
                f == frequency(w, cache)
            IN  /\ (n = <<>> \/ \E i \in 1..Len(n) : n[i] \in Digits) =>
                       /\ e.raised = "" /\ ~e.bool
                       /\ f.raised = "" /\ f.freq = FrequencyNone
                /\ n = <<>> =>
                       /\ e.ctx.hashed = <<>> /\ e.ctx.loads = <<>>
                       /\ f.ctx.hashed = <<>> /\ f.ctx.loads = <<>>
                       /\ e.ctx.cache = cache /\ f.ctx.cache = cache

\* exists("7") has read the shard of "7", which holds "the", and returned
\* False; exists(" ") on the same store returns False without a shard.
C14_Witness ==
    /\ ret.op = "exists"
    /\ ret.arg = << <<"7">> >>
    /\ ret.raised = ""
    /\ ~ret.bool
    /\ ret.loads = <<HexPrefix(md5_hexdigest(<<"7">>))>>
    /\ CacheIndex(cache, HexPrefix(md5_hexdigest(<<"7">>))) # 0
    /\ HasRow(<<"t", "h", "e">>)
    /\ ~exists(<<" ">>, cache).bool
    /\ exists(<<" ">>, cache).ctx.loads = <<>>

----------------------------------------------------------------------------
(* The Aggregator (build_unigrams.py 22-28, 63-120).                        *)

\* The tab-separated fields of a raw line.
Fields(line) == Split(RStripNewline(line), "\t")

\* The token up to its first "_" or ".".
BarePart(token) ==
    IF \A i \in 1..Len(token) : token[i] \notin {"_", "."}
    THEN token
    ELSE SubSeq(token, 1,
                (CHOOSE k \in 1..Len(token) :
                    /\ token[k] \in {"_", "."}
                    /\ \A j \in 1..(k - 1) : token[j] \notin {"_", "."}) - 1)

\* A raw record that is malformed: not four fields, a bare part that is empty
\* or not alphabetic, or a year, tf or df that int() does not take.
Malformed(line) ==
    LET f == Fields(line)
    IN  \/ Len(f) # 4
        \/ BarePart(f[1]) = <<>>
        \/ \E i \in 1..Len(BarePart(f[1])) : BarePart(f[1])[i] \notin AsciiLetters
        \/ \E k \in 2..4 : ~int(f[k]).ok

\* The decade d, a multiple of ten, with d <= year < d + 10.
FloorDecade(year) == CHOOSE d \in (year - 9)..year : d % 10 = 0

\* An accepted record as (word, decade, tf, df).
Record(line) ==
    LET f == Fields(line)
    IN  <<Lower(BarePart(f[1])), FloorDecade(int(f[2]).value),
          int(f[3]).value, int(f[4]).value>>

\* The accepted records among the lines, in file order.
AcceptedRecords ==
    LET ok == SelectSeq(lines, LAMBDA l : ~Malformed(l))
    IN  [i \in 1..Len(ok) |-> Record(ok[i])]

\* The accepted records of one (word, decade).
RecordsOf(word, decade) ==
    SelectSeq(AcceptedRecords, LAMBDA r : r[1] = word /\ r[2] = decade)

\* C15: the table written has at most one row per (word, decade), a row for
\* every (word, decade) of an accepted record and no other, and the tf and df
\* of a row are the sums of tf and df over the accepted records of its word
\* and decade, the decade being floor(year / 10) * 10.
C15_OneRowPerWordDecadeWithSums ==
    unigrams.pc = "done" =>
        LET table == unigrams.table
        IN  /\ \A i, j \in 1..Len(table) :
                   (table[i][1] = table[j][1] /\ table[i][2] = table[j][2]) => i = j
            /\ \A i \in 1..Len(table) :
                   LET mine == RecordsOf(table[i][1], table[i][2])
                   IN  /\ mine # <<>>
                       /\ table[i][3] = SumOver(mine, 3)
                       /\ table[i][4] = SumOver(mine, 4)
            /\ \A k \in 1..Len(AcceptedRecords) :
                   \E i \in 1..Len(table) :
                       /\ table[i][1] = AcceptedRecords[k][1]
                       /\ table[i][2] = AcceptedRecords[k][2]

\* ("the_DET", 1950, 100, 10) and ("the_DET", 1955, 50, 5), with a malformed
\* line between them, have given the single row ("the", 1950, 150, 15).
C15_Witness ==
    /\ unigrams.pc = "done"
    /\ Len(lines) = 3
    /\ Fields(lines[1])[2] = <<"1", "9", "5", "0">>
    /\ Malformed(lines[2])
    /\ Fields(lines[3])[2] = <<"1", "9", "5", "5">>
    /\ unigrams.table = << <<<<"t", "h", "e">>, 1950, 150, 15>> >>

\* C16: the table written is strictly ascending in (word, decade), words
\* compared as strings and decades as numbers, so the rows of a word are
\* contiguous and in increasing decade order.
C16_TableStrictlyAscending ==
    unigrams.pc = "done" =>
        LET table == unigrams.table
        IN  /\ \A i \in 1..(Len(table) - 1) :
                   \/ StrLess(table[i][1], table[i + 1][1])
                   \/ /\ table[i][1] = table[i + 1][1]
                      /\ table[i][2] < table[i + 1][2]
            /\ \A i \in 1..Len(table) : \A j \in i..Len(table) :
                   table[i][1] = table[j][1] =>
                       \A k \in i..j : table[k][1] = table[i][1]

\* Three accepted records read in descending (word, decade) order have been
\* written as three rows in ascending order.
C16_Witness ==
    /\ unigrams.pc = "done"
    /\ Len(unigrams.table) = 3
    /\ unigrams.kept = 3
    /\ unigrams.agg = <<unigrams.table[3], unigrams.table[2], unigrams.table[1]>>
    /\ unigrams.table[1][1] # unigrams.table[2][1]
    /\ unigrams.table[2][1] = unigrams.table[3][1]

\* The lines in the order a permutation of their positions gives.
Permuted(perm) == [i \in 1..Len(lines) |-> lines[perm[i]]]

\* C17: the table written depends only on the multiset of the lines: the
\* Aggregator run on any permutation of them, and run again on them, writes
\* the same table.
C17_OrderIndependent ==
    unigrams.pc = "done" =>
        \A perm \in Permutations(1..Len(lines)) :
            process_file(Permuted(perm)) = unigrams.table

\* Records of two keys, two of them summed into one row, were read in an
\* order that is not the sorted one, and the reversed file gives the same table.
C17_Witness ==
    /\ unigrams.pc = "done"
    /\ unigrams.kept = 3
    /\ Len(unigrams.table) = 2
    /\ unigrams.agg # unigrams.table
    /\ lines[1] # lines[3]
    /\ process_file(<<lines[3], lines[2], lines[1]>>) = unigrams.table

\* C18: reading a malformed record leaves the (word, decade) sums as they
\* were and adds one to skipped only, the loop goes on, and after every
\* record total = kept + skipped.
C18_MalformedOnlySkipped ==
    [][unigrams'.pos = unigrams.pos + 1 =>
           /\ unigrams'.total = unigrams.total + 1
           /\ unigrams'.total = unigrams'.kept + unigrams'.skipped
           /\ unigrams'.pc = "lines"
           /\ Malformed(lines[unigrams'.pos]) =>
                  /\ unigrams'.agg = unigrams.agg
                  /\ unigrams'.skipped = unigrams.skipped + 1
                  /\ unigrams'.kept = unigrams.kept
           /\ ~Malformed(lines[unigrams'.pos]) =>
                  /\ unigrams'.skipped = unigrams.skipped
                  /\ unigrams'.kept = unigrams.kept + 1]_vars

\* A malformed record was read after an accepted one and before another: the
\* sums are those of the two accepted records, and 3 = 2 + 1.
C18_Witness ==
    /\ unigrams.pos = 3
    /\ ~Malformed(lines[1]) /\ Malformed(lines[2]) /\ ~Malformed(lines[3])
    /\ unigrams.agg = ProcessLines(ProcessStart, <<lines[1], lines[3]>>).agg
    /\ unigrams.total = 3 /\ unigrams.kept = 2 /\ unigrams.skipped = 1

----------------------------------------------------------------------------
(* Peak decades (build_hash_files.py 129-162).                              *)

\* The decade's corpus page total reaches the threshold.
Eligible(decade) == DecadeTotalsGet(decade)[2] >= MIN_CORPUS_PAGES

\* The rows of a word in eligible decades.
EligibleRows(word) == SelectSeq(RowsOf(word), LAMBDA row : Eligible(row[2]))

\* row[col] / decade total, col 3 for tf and 4 for df.
NormalizedCount(row, col) == Normalized(row[col], DecadeTotalsGet(row[2])[col - 2])

\* The earliest eligible decade of the word whose normalized count is the
\* greatest among its eligible decades.
EarliestMax(word, col) ==
    LET rows == EligibleRows(word)
        best == {i \in 1..Len(rows) :
                    \A j \in 1..Len(rows) :
                        ~FracGreater(NormalizedCount(rows[j], col),
                                     NormalizedCount(rows[i], col))}
    IN  CHOOSE d \in {rows[i][2] : i \in best} :
            \A i \in best : d <= rows[i][2]

\* C19: for every word with an eligible decade, peak_tf_decade is the earliest
\* eligible decade attaining the greatest tf / decade_total_tf, and
\* peak_df_decade likewise and independently from df / decade_total_df.
C19_PeakIsEarliestMaximum ==
    build.pc = "done" =>
        \A word \in StreamWords :
            EligibleRows(word) # <<>> =>
                \A i \in 1..Len(ShardRowsOf(word)) :
                    /\ ShardRowsOf(word)[i].peak_tf = EarliestMax(word, 3)
                    /\ ShardRowsOf(word)[i].peak_df = EarliestMax(word, 4)

\* C20: a decade below the page threshold or absent from the corpus totals is
\* never a reported peak decade; a word with no other decade gets 0 for both
\* peaks; sum_tf and sum_df count every decade of the word all the same.
C20_SubThresholdNeverPeak ==
    build.pc = "done" =>
        \A word \in StreamWords :
            /\ Len(ShardRowsOf(word)) = 1
            /\ LET row == ShardRowsOf(word)[1]
                    decades == {RowsOf(word)[i][2] : i \in 1..Len(RowsOf(word))}
               IN  /\ \A d \in decades :
                          ~Eligible(d) => row.peak_tf # d /\ row.peak_df # d
                   /\ (\A d \in decades : ~Eligible(d)) =>
                          row.peak_tf = 0 /\ row.peak_df = 0
                   /\ row.sum_tf = SumOver(RowsOf(word), 3)
                   /\ row.sum_df = SumOver(RowsOf(word), 4)

\* "do" has rows only in 1780 (absent from the totals) and 1790 (below the
\* threshold) and got 0 for both peaks with positive sums; "self" has a first
\* row in 1790 with the larger counts and got 1950 for both peaks.
C20_Witness ==
    /\ build.pc = "done"
    /\ Len(Stream) = 3
    /\ Stream[1][1] = <<"d", "o">> /\ Stream[1][2] \in {1780, 1790}
    /\ Stream[2][1] = <<"s", "e", "l", "f">> /\ Stream[2][2] = 1790
    /\ Stream[3][1] = <<"s", "e", "l", "f">> /\ Stream[3][2] = 1950
    /\ Stream[2][3] > Stream[3][3] /\ Stream[3][3] > 0 /\ Stream[3][4] > 0
    /\ ShardRowsOf(<<"d", "o">>)[1].peak_tf = 0
    /\ ShardRowsOf(<<"d", "o">>)[1].peak_df = 0
    /\ ShardRowsOf(<<"d", "o">>)[1].sum_tf + ShardRowsOf(<<"d", "o">>)[1].sum_df > 0
    /\ ShardRowsOf(<<"s", "e", "l", "f">>)[1].peak_tf = 1950
    /\ ShardRowsOf(<<"s", "e", "l", "f">>)[1].peak_df = 1950
    /\ ShardRowsOf(<<"s", "e", "l", "f">>)[1].sum_tf = Stream[2][3] + Stream[3][3]

\* C21: the sentinel 0 is reported only for a word with no eligible decade: a
\* word with an eligible decade gets one of its eligible decades as
\* peak_tf_decade and one as peak_df_decade, whatever its first row and
\* whatever the counts, 0 included, in those decades.
C21_SentinelOnlyWithoutEligibleDecade ==
    build.pc = "done" =>
        \A word \in StreamWords :
            LET qualifying == {EligibleRows(word)[i][2] :
                                  i \in 1..Len(EligibleRows(word))}
            IN  qualifying # {} =>
                    \A i \in 1..Len(ShardRowsOf(word)) :
                        /\ ShardRowsOf(word)[i].peak_tf \in qualifying
                        /\ ShardRowsOf(word)[i].peak_df \in qualifying

----------------------------------------------------------------------------
(* The shard cache under concurrent lookups (lookup.py 51-54).              *)

\* C22: under any interleaving of concurrent lookups a shard is parsed at
\* most once while it stays in the cache: as long as no more distinct shards
\* were parsed than the cache holds, none was evicted, and none has been
\* parsed a second time.
C22_ParsedAtMostOncePerEviction ==
    Cardinality(DOMAIN parses) <= CacheMaxSize =>
        \A prefix \in DOMAIN parses : parses[prefix] <= 1

----------------------------------------------------------------------------
(* Single-level contraction fallback (lookup.py 123-142, 160-179, 234-242). *)

\* The direct lookups one word calls for: the normalized word, and its stem
\* if the word has no row and splits.
ExpectedLookups(n) ==
    IF n = <<>> THEN <<>>
    ELSE IF HasRow(n) \/ ~Splits(n) THEN <<n>>
    ELSE <<n, _split_contraction(n)[1]>>

\* The row one word gets: its own, else its stem's, else None.
ExpectedRow(n) ==
    IF n # <<>> /\ HasRow(n) THEN Direct(n)
    ELSE IF Splits(n) THEN Direct(_split_contraction(n)[1])
    ELSE FrequencyNone

\* The number of positions of seq holding x.
Count(seq, x) == Cardinality({i \in 1..Len(seq) : seq[i] = x})

\* The stems a batch looks up: one per input word that has no row and splits.
BatchStems(words) ==
    LET missed == SelectSeq(words, LAMBDA w : ~HasRow(normalize(w)) /\ Splits(normalize(w)))
    IN  [i \in 1..Len(missed) |-> _split_contraction(normalize(missed[i]))[1]]

----------------------------------------------------------------------------
\* _split_contraction on its own: every stem below followed by every ending.

SplitStems ==
    { <<>>,
      <<"i">>,
      <<"i", "t">>,
      <<"h", "e">>,
      <<"w", "o">>,
      <<"d", "o", "g">>,
      <<"d", "o", "n", "'", "t">>,
      <<"i", "t", "'", "s">>,
      <<"'">> }

SplitEndings ==
    Range(CONTRACTION_SUFFIXES) \cup
    { <<"'", "s">>, <<>>, <<"s">>, <<"'">>, <<"'", "t">>, <<"l", "l">>, <<"'", "S">> }

SplitWords == {stem \o ending : stem \in SplitStems, ending \in SplitEndings}

InitSplit ==
    /\ lines = <<>>
    /\ files = <<>>
    /\ unigrams = ProcessStart
    /\ build = BuildStart
    /\ output_dir = NoFiles
    /\ data_dir = [exists |-> FALSE, flat |-> NoFiles, nested |-> NoFiles]
    /\ cache = <<>>
    /\ threads = [t \in 1..NumThreads |-> Idle]
    /\ parses = NoParses
    /\ split \in {SplitStart(word) : word \in SplitWords}
    /\ ret = Returned("none", <<>>,
                 Outcome("", FALSE, FrequencyNone, NoBatch, StartCall(<<>>)))

NextSplit == SplitCall

SpecSplit == InitSplit /\ [][NextSplit]_vars

\* The patterns _split_contraction tries: the six suffixes and 's.
Patterns == Range(CONTRACTION_SUFFIXES) \cup {<<"'", "s">>}

\* The patterns a word ends with.
Ending(word) == {suffix \in Patterns : EndsWith(word, suffix)}

\* The splits some pattern allows: a non-empty stem, allowlisted under 's.
Matches(word) ==
    LET StemOf(suffix) == SubSeq(word, 1, Len(word) - Len(suffix))
    IN  {<<StemOf(suffix), suffix>> : suffix \in
            {p \in Ending(word) :
                /\ StemOf(p) # <<>>
                /\ p = <<"'", "s">> => StemOf(p) \in S_CONTRACTION_STEMS}}

----------------------------------------------------------------------------
\* The Shard Builder on partition tables of words that share a shard:
\* md5("much") and md5("stop") start with "ef", and "stop" has the smaller
\* hash suffix though it comes later in the stream.

ShardWords == { <<"d", "o">>, <<"m", "u", "c", "h">>, <<"s", "t", "o", "p">> }

ShardRows == {<<w, d, 1, 2>> : w \in ShardWords, d \in BuildDecades}

InitShards ==
    /\ lines = <<>>
    /\ files \in UNION {FileLists(k, MaxRows, ShardRows) : k \in 1..MaxFiles}
    /\ InitRuntime

SpecShards == InitShards /\ [][NextBuild]_vars

\* The loop of lines 113-162 over the rows from position i on.
RECURSIVE BuildRows(_, _, _)
BuildRows(b, rows, i) ==
    IF i > Len(rows) THEN b
    ELSE BuildRows(ProcessRow(b, rows[i]), rows, i + 1)

\* The shards one run of the build writes for a stream of rows.
Built(rows) ==
    LET b == BuildRows(BuildStart, rows, 1)
        flushed == IF b.current_word # None THEN FlushWord(b) ELSE b
    IN  [prefix \in DOMAIN flushed.buckets |-> ShardFrame(flushed.buckets[prefix])]

\* C25: in every shard the build has written, each row carries the hash
\* suffix of a word of the stream whose hash prefix is the shard's name, the
\* rows are in ascending order of hash suffix, and another build of the same
\* stream writes the same shards.
C25_ShardRowsByPrefixAscending ==
    build.pc = "done" =>
        /\ \A prefix \in DOMAIN output_dir :
               LET rows == output_dir[prefix]
               IN  /\ \A i \in 1..Len(rows) :
                          \E word \in StreamWords :
                              /\ HexPrefix(md5_hexdigest(word)) = prefix
                              /\ HexSuffix(md5_hexdigest(word)) = rows[i].hash
                   /\ \A i \in 1..(Len(rows) - 1) :
                          ~IntSeqLess(rows[i + 1].hash, rows[i].hash)
        /\ output_dir = Built(Stream)

\* A build has written shard "ef" with the row of "stop" before the row of
\* "much", which came first in the stream.
C25_Witness ==
    /\ build.pc = "done"
    /\ <<14, 15>> \in DOMAIN output_dir
    /\ Len(output_dir[<<14, 15>>]) = 2
    /\ output_dir[<<14, 15>>][1].hash = HexSuffix(md5_hexdigest(<<"s", "t", "o", "p">>))
    /\ output_dir[<<14, 15>>][2].hash = HexSuffix(md5_hexdigest(<<"m", "u", "c", "h">>))
    /\ \E i \in 1..Len(Stream) : \E j \in (i + 1)..Len(Stream) :
           Stream[i][1] = <<"m", "u", "c", "h">> /\ Stream[j][1] = <<"s", "t", "o", "p">>

----------------------------------------------------------------------------
\* Sequential API calls on an installation that is downloaded again while the
\* process runs.

\* The shards of another release: "do" with other counts.
ReleaseShards == Built(<< <<<<"d", "o">>, 1960, 2, 1>> >>)

\* download_data.main on installed data, answered "y": tar.extractall
\* overwrites the shard files the archive holds and leaves the others.
Redownload ==
    /\ is_data_installed
    /\ data_dir' = [data_dir EXCEPT !.nested =
            [prefix \in DOMAIN @ \cup DOMAIN ReleaseShards |->
                IF prefix \in DOMAIN ReleaseShards
                THEN ReleaseShards[prefix] ELSE @[prefix]]]
    /\ data_dir' # data_dir
    /\ UNCHANGED <<lines, unigrams, files, build, output_dir, cache, threads,
                   parses, split, ret>>

CacheRows == {<<w, 1950, 1, 2>> : w \in BuildWords}

InitCache ==
    /\ lines = <<>>
    /\ files \in FileLists(1, MaxRows, CacheRows)
    /\ InitRuntime

NextCache ==
    \/ Next
    \/ Redownload

SpecCache == InitCache /\ [][NextCache]_vars

\* The cache is within its capacity, keyed by distinct two-hex-digit prefixes,
\* of which there are no more than the capacity, and every shard parsed so far
\* was parsed once and is still cached.
CacheHoldsEveryParse ==
    /\ Len(cache) <= CacheMaxSize
    /\ Cardinality(Prefixes) <= CacheMaxSize
    /\ \A i \in 1..Len(cache) :
           /\ cache[i][1] \in Prefixes
           /\ \A j \in 1..Len(cache) : cache[j][1] = cache[i][1] => j = i
    /\ \A prefix \in DOMAIN parses :
           parses[prefix] = 1 /\ CacheIndex(cache, prefix) # 0

\* A step keeps every cached shard as it was loaded and parses none of them.
CachedShardsKept ==
    \A i \in 1..Len(cache) :
        /\ \E j \in 1..Len(cache') : cache'[j] = cache[i]
        /\ parses'[cache[i][1]] = parses[cache[i][1]]

\* C26: in sequential use the cache never holds more than 256 shards, its keys
\* are two-hex-digit prefixes, no loaded shard is ever evicted, each shard file
\* is successfully parsed at most once, and a shard file replaced on disk
\* after it was loaded is not read again: the cached frame stays.
C26_NoEvictionNoReread ==
    []CacheHoldsEveryParse /\ [][CachedShardsKept]_vars

\* frequency("do") has returned the row of the cached shard "d4", parsed
\* once, while the file on disk now holds another row for "do".
C26_Witness ==
    /\ ret.op = "frequency"
    /\ ret.arg = << <<"d", "o">> >>
    /\ ret.raised = ""
    /\ ret.freq # FrequencyNone
    /\ CacheIndex(cache, <<13, 4>>) # 0
    /\ parses[<<13, 4>>] = 1
    /\ get_hash_file(<<13, 4>>) # FileNotFoundError
    /\ cache[CacheIndex(cache, <<13, 4>>)][2]
           # read_parquet(get_hash_file(<<13, 4>>), <<13, 4>>)
    /\ frequency(<<"d", "o">>, <<>>).freq # ret.freq
    /\ frequency(<<"d", "o">>, cache).freq = ret.freq

====
